---- MODULE Spec2Model ----
(***************************************************************************)
(* SusBot: the per-group game orchestrator (GameManager) and the session   *)
(* state and tally logic (GameState.ts).                                   *)
(*                                                                         *)
(* JavaScript runs one callback at a time, so the code between two awaits  *)
(* is one atomic step.  Every action below is one such step: the dispatch  *)
(* of an inbound command, the return (or rejection) of an awaited          *)
(* collaborator call, or the firing of a timeout.  The inbound message     *)
(* loop awaits each handler before it reads the next message, so at most   *)
(* one inbound handler is suspended at any time; timeout callbacks and     *)
(* their continuations interleave freely with it.                          *)
(***************************************************************************)
EXTENDS Integers, Sequences, FiniteSets, Bags, TLC

(* ------------------------------ bounds ------------------------------- *)

\* inbound commands the group under test receives in one run
MaxCommands == 4
\* inbound commands of a second group that plays at the same time
MaxCommandsOther == 1
\* votes submitted to one poll when the tally functions are checked alone
MaxBallots == 4

(* ------------------------- program constants -------------------------- *)

MinPlayers == 3
DurationVoteSeconds == 60
SpeakerDelaySeconds == 2
VotingSeconds == 60
CleanupSeconds == 5
DefaultDuration == 5
NoDuration == 0
NoTime == 0

Undefined == "undefined"
Bot == "bot"
Groups == {"g1", "g2"}
GameDurations == {5, 7, 10}
\* the first entries of the word pool
WORD_LIST == <<"Pizza", "Hamburger">>

\* what conversation.members() can return: the member list at that moment
MemberSnapshots ==
    { <<Bot, "p1">>, <<Bot, "p1", "p2">>, <<Bot, "p1", "p2", "p3">> }
Participants == {"p1", "p2", "p3"}
\* the senders of votes, and the durations and option ids a vote can carry
Voters == {"p1", "p2"}
\* the action ids of duration buttons, as their characters, and of accusation
\* buttons; the digits of the numeric fallback
DurationActionIds == { <<"7">>, <<"6">>, <<"m">> }
Votees == {"p1", "zz"}
Numbers == {"1"}

\* the tally functions alone: who submits, what they choose, and the player
\* each duration stands for when the same ballots go to both tallies
TallyVoters == {"p1", "p2", "p3", "p4"}
TallyDurations == {5, 7}
AccusedFor(duration) ==
    CASE duration = 5 -> "p1" [] duration = 7 -> "p2" [] duration = 10 -> "p3"
      [] OTHER -> Undefined

SeqToSet(s) == {s[i] : i \in 1..Len(s)}

(* ------------------------- GameState.ts ------------------------------ *)

createGameState(groupId) ==
    [ groupId               |-> groupId,
      status                |-> "idle",
      durationVotes         |-> << >>,
      selectedDuration      |-> NoDuration,
      players               |-> << >>,
      imposterInboxId       |-> Undefined,
      secretWord            |-> Undefined,
      startedAt             |-> Undefined,
      discussionEndTime     |-> NoTime,
      currentSpeakerInboxId |-> Undefined,
      votingStartedAt       |-> Undefined,
      votes                 |-> << >>,
      votedOutInboxId       |-> Undefined,
      winner                |-> Undefined ]

isGameActive_OnlyIdle(state) == state.status # "idle"

isGameActive_NotAssigning(state) ==
    state.status \notin {"idle", "ended", "assigning_roles"}

isGameActive(state) == state.status # "idle" /\ state.status # "ended"

hasPlayer(state, inboxId) ==
    \E i \in 1..Len(state.players) : state.players[i].inboxId = inboxId

addPlayer(state, inboxId) ==
    IF ~hasPlayer(state, inboxId)
    THEN [state EXCEPT !.players =
             Append(@, [ inboxId    |-> inboxId,
                         isImposter |-> FALSE,
                         hasVoted   |-> FALSE,
                         votedFor   |-> Undefined ])]
    ELSE state

setImposter(state, inboxId) ==
    IF hasPlayer(state, inboxId)
    THEN [state EXCEPT
             !.players = [i \in 1..Len(@) |->
                 IF @[i].inboxId = inboxId
                 THEN [@[i] EXCEPT !.isImposter = TRUE] ELSE @[i]],
             !.imposterInboxId = inboxId]
    ELSE state

recordDurationVote_KeepsOld(state, voterInboxId, duration) ==
    [state EXCEPT !.durationVotes =
        Append(@, [voterInboxId |-> voterInboxId, duration |-> duration])]

recordDurationVote(state, voterInboxId, duration) ==
    [state EXCEPT !.durationVotes =
        Append(SelectSeq(@, LAMBDA v : v.voterInboxId # voterInboxId),
               [voterInboxId |-> voterInboxId, duration |-> duration])]

\* The keys of a JavaScript Map that counts the items of `items`, in the
\* Map's iteration order: the order of each key's first insertion.
RECURSIVE FirstOccurrences(_)
FirstOccurrences(items) ==
    IF items = << >> THEN << >>
    ELSE LET front == FirstOccurrences(SubSeq(items, 1, Len(items) - 1))
             last  == items[Len(items)]
         IN  IF last \in SeqToSet(front) THEN front ELSE Append(front, last)

CountOf(items, key) == Cardinality({i \in 1..Len(items) : items[i] = key})

\* for (const [key, count] of counts.entries()) if (count > maxCount) ...
\* acc = [maxCount, winner], the two variables the loop updates.
RECURSIVE PluralityScan_LastMaxWins(_, _, _)
PluralityScan_LastMaxWins(keys, items, acc) ==
    IF keys = << >> THEN acc
    ELSE LET count == CountOf(items, Head(keys))
         IN  PluralityScan_LastMaxWins(Tail(keys), items,
                 IF count >= acc.maxCount
                 THEN [maxCount |-> count, winner |-> Head(keys)]
                 ELSE acc)

RECURSIVE PluralityScan(_, _, _)
PluralityScan(keys, items, acc) ==
    IF keys = << >> THEN acc
    ELSE LET count == CountOf(items, Head(keys))
         IN  PluralityScan(Tail(keys), items,
                 IF count > acc.maxCount
                 THEN [maxCount |-> count, winner |-> Head(keys)]
                 ELSE acc)

calculateWinningDuration_DefaultsToFive(state) ==
    IF Len(state.durationVotes) = 0 THEN DefaultDuration
    ELSE LET items == [i \in 1..Len(state.durationVotes) |->
                          state.durationVotes[i].duration]
         IN  PluralityScan(FirstOccurrences(items), items,
                 [maxCount |-> 0, winner |-> NoDuration]).winner

calculateWinningDuration(state) ==
    IF Len(state.durationVotes) = 0 THEN NoDuration
    ELSE LET items == [i \in 1..Len(state.durationVotes) |->
                          state.durationVotes[i].duration]
         IN  PluralityScan(FirstOccurrences(items), items,
                 [maxCount |-> 0, winner |-> NoDuration]).winner

recordVote_KeepsFirst(state, voterInboxId, voteeInboxId) ==
    LET entry == [voter |-> voterInboxId, votee |-> voteeInboxId]
        voted == \E i \in 1..Len(state.votes) :
                     state.votes[i].voter = voterInboxId
    IN  [state EXCEPT
            !.votes = IF voted THEN @ ELSE Append(@, entry)]

recordVote(state, voterInboxId, voteeInboxId) ==
    LET entry == [voter |-> voterInboxId, votee |-> voteeInboxId]
        voted == \E i \in 1..Len(state.votes) :
                     state.votes[i].voter = voterInboxId
    IN  [state EXCEPT
            !.votes = IF voted
                      THEN [i \in 1..Len(@) |->
                               IF @[i].voter = voterInboxId THEN entry ELSE @[i]]
                      ELSE Append(@, entry),
            !.players = [i \in 1..Len(@) |->
                IF @[i].inboxId = voterInboxId
                THEN [@[i] EXCEPT !.hasVoted = TRUE, !.votedFor = voteeInboxId]
                ELSE @[i]]]

calculateVoteResults_NeverNull(state) ==
    IF Len(state.votes) = 0
    THEN [votedOutInboxId |-> IF Len(state.players) = 0 THEN Undefined
                              ELSE state.players[1].inboxId,
          voteCount |-> 0]
    ELSE LET items == [i \in 1..Len(state.votes) |-> state.votes[i].votee]
             r == PluralityScan(FirstOccurrences(items), items,
                      [maxCount |-> 0, winner |-> Undefined])
         IN  [votedOutInboxId |-> r.winner, voteCount |-> r.maxCount]

\* null is [votedOutInboxId |-> Undefined, voteCount |-> 0]; an empty
\* string is falsy, so `if (!votedOutInboxId) return null` returns null for it
calculateVoteResults(state) ==
    IF Len(state.votes) = 0
    THEN [votedOutInboxId |-> Undefined, voteCount |-> 0]
    ELSE LET items == [i \in 1..Len(state.votes) |-> state.votes[i].votee]
             r == PluralityScan(FirstOccurrences(items), items,
                      [maxCount |-> 0, winner |-> Undefined])
         IN  IF r.winner \in {Undefined, ""}
             THEN [votedOutInboxId |-> Undefined, voteCount |-> 0]
             ELSE [votedOutInboxId |-> r.winner, voteCount |-> r.maxCount]

determineWinner(state, votedOutInboxId) ==
    IF votedOutInboxId = state.imposterInboxId THEN "group" ELSE "imposter"

resetGameState_KeepsVotes(state) ==
    [state EXCEPT
        !.status                = "idle",
        !.durationVotes         = << >>,
        !.selectedDuration      = NoDuration,
        !.players               = << >>,
        !.imposterInboxId       = Undefined,
        !.secretWord            = Undefined,
        !.startedAt             = Undefined,
        !.discussionEndTime     = NoTime,
        !.currentSpeakerInboxId = Undefined,
        !.votingStartedAt       = Undefined,
        !.votedOutInboxId       = Undefined,
        !.winner                = Undefined]

resetGameState(state) ==
    [state EXCEPT
        !.status                = "idle",
        !.durationVotes         = << >>,
        !.selectedDuration      = NoDuration,
        !.players               = << >>,
        !.imposterInboxId       = Undefined,
        !.secretWord            = Undefined,
        !.startedAt             = Undefined,
        !.discussionEndTime     = NoTime,
        !.currentSpeakerInboxId = Undefined,
        !.votingStartedAt       = Undefined,
        !.votes                 = << >>,
        !.votedOutInboxId       = Undefined,
        !.winner                = Undefined]

(* --------------------------- the state -------------------------------- *)

VARIABLES
    games,      \* GameManager.games: groupId -> GameState (a partial map)
    timers,     \* GameManager.timers: groupId -> the handle setTimer stored
    timeouts,   \* pending setTimeout calls whose handle is not stored (bag)
    tasks,      \* timeout callbacks suspended at an await (bag)
    inbound,    \* the inbound handler the message loop is awaiting, if any
    budget,     \* inbound commands each group may still receive
    unhandled,  \* groups for which a timeout callback's promise was rejected
    gameNo,     \* history: how many games startGame has begun for the group
    cancelled,  \* history: cancelGame reset the group and no game began since
    ballots,    \* history: the votes submitted to the tally functions, in order
    stopped     \* history: shutdown() has returned

vars == <<games, timers, timeouts, tasks, inbound, budget, unhandled,
          gameNo, cancelled, ballots, stopped>>

NoInbound == [op |-> "none", g |-> "none", pc |-> "none"]

Task(g, pc, game) ==
    [g |-> g, pc |-> pc, game |-> game, members |-> << >>, i |-> 0, dm |-> 0,
     counted |-> << >>]

One(x) == SetToBag({x})

\* private getGameState(groupId): get or create
getGameState(gs, groupId) ==
    IF groupId \in DOMAIN gs THEN gs
    ELSE (groupId :> createGameState(groupId)) @@ gs

\* getGameStatus(groupId): undefined for a group with no session
getGameStatus(gs, groupId) ==
    IF groupId \in DOMAIN gs THEN gs[groupId] ELSE createGameState(Undefined)

\* clearTimeout(existing), then timers.set(groupId, setTimeout(callback, delay))
setTimer(tm, groupId, kind, delay, game) ==
    (groupId :> [kind |-> kind, delay |-> delay, game |-> game,
                 armed |-> TRUE]) @@ tm

clearTimer_LeavesEntry(tm, groupId) ==
    IF groupId \in DOMAIN tm
    THEN [tm EXCEPT ![groupId].armed = FALSE]
    ELSE tm

clearTimer_AllGroups(tm, groupId) == << >>

\* clearTimeout(timer); timers.delete(groupId)
clearTimer(tm, groupId) ==
    [h \in (DOMAIN tm) \ {groupId} |-> tm[h]]

\* An unstored setTimeout(callback, delay)
Timeout(g, kind, delay, game) ==
    [g |-> g, kind |-> kind, delay |-> delay, game |-> game]

\* players.clear() under a live Map iterator: the iterator of a role-DM loop
\* restarts on the emptied table, so it visits whatever is added afterwards.
IteratorAfterClear(t, g) ==
    IF t.g = g /\ t.pc = "ar_dm" THEN [t EXCEPT !.i = 0] ELSE t

AfterClear(bag, g) ==
    LET ts == BagToSet(bag)
        img == {IteratorAfterClear(t, g) : t \in ts}
    IN  [u \in img |->
            LET pre == {t \in ts : IteratorAfterClear(t, g) = u}
                RECURSIVE Sum(_)
                Sum(S) == IF S = {} THEN 0
                          ELSE LET x == CHOOSE y \in S : TRUE
                               IN  bag[x] + Sum(S \ {x})
            IN  Sum(pre)]

TypeOK ==
    /\ DOMAIN games \subseteq Groups
    /\ DOMAIN timers \subseteq Groups
    /\ inbound.op \in {"none", "start", "cancel", "vote", "status"}
    /\ budget \in [Groups -> 0..(MaxCommands + MaxCommandsOther)]
    /\ unhandled \subseteq Groups

Init ==
    /\ games = << >>
    /\ timers = << >>
    /\ timeouts = EmptyBag
    /\ tasks = EmptyBag
    /\ inbound = NoInbound
    /\ budget = [g \in Groups |-> IF g = "g1" THEN MaxCommands ELSE 0]
    /\ unhandled = {}
    /\ gameNo = [g \in Groups |-> 0]
    /\ cancelled = [g \in Groups |-> FALSE]
    /\ ballots = << >>
    /\ stopped = FALSE

(* ----------------------- inbound: startGame --------------------------- *)

\* The message loop hands the next command of group g to its handler; the
\* process takes no command once shutdown() was called (it exits).
Accepts(g) == inbound = NoInbound /\ budget[g] > 0 /\ ~stopped

Spend(g) == budget' = [budget EXCEPT ![g] = @ - 1]

\* startGame up to its first await: the "already in progress" send, or
\* conversation.members()
StartGame(g) ==
    /\ Accepts(g)
    /\ Spend(g)
    /\ games' = getGameState(games, g)
    /\ inbound' = [NoInbound EXCEPT !.op = "start", !.g = g,
                      !.pc = IF isGameActive(games'[g])
                             THEN "sg_send_active" ELSE "sg_members"]
    /\ UNCHANGED <<stopped, ballots, timers, timeouts, tasks, unhandled, gameNo, cancelled>>

\* resetGameState(gameState); gameState.status = 'voting_duration'
BeginGame(state) == [resetGameState(state) EXCEPT !.status = "voting_duration"]

TooFew_Two(members) == Len(members) < 2

\* members.length < 3
TooFew(members) == Len(members) < MinPlayers

\* members() returned: too few members, or the reset and the two poll sends
StartGameMembers(g, members) ==
    /\ inbound.op = "start" /\ inbound.g = g /\ inbound.pc = "sg_members"
    /\ IF TooFew(members)
       THEN /\ inbound' = [inbound EXCEPT !.pc = "sg_send_few"]
            /\ UNCHANGED <<games, tasks, gameNo, cancelled>>
       ELSE /\ games' = [games EXCEPT ![g] = BeginGame(@)]
            /\ tasks' = AfterClear(tasks, g)
            /\ gameNo' = [gameNo EXCEPT ![g] = @ + 1]
            /\ cancelled' = [cancelled EXCEPT ![g] = FALSE]
            /\ inbound' = [inbound EXCEPT !.pc = "sg_send_poll"]
    /\ UNCHANGED <<stopped, ballots, timers, timeouts, budget, unhandled>>

\* both poll messages were sent: arm the 60-second duration deadline
StartGameArm(g) ==
    /\ inbound.op = "start" /\ inbound.g = g /\ inbound.pc = "sg_send_poll"
    /\ timers' = setTimer(timers, g, "duration", DurationVoteSeconds, gameNo[g])
    /\ inbound' = NoInbound
    /\ UNCHANGED <<stopped, ballots, games, timeouts, tasks, budget, unhandled, gameNo, cancelled>>

(* ----------------------- inbound: cancelGame -------------------------- *)

\* cancelGame up to its await: "No active game to cancel", or clearTimer,
\* resetGameState and the "Game cancelled" send
CancelGame(g) ==
    /\ Accepts(g)
    /\ Spend(g)
    /\ LET gs == getGameState(games, g)
       IN  IF ~isGameActive(gs[g])
           THEN /\ games' = gs
                /\ inbound' = [NoInbound EXCEPT !.op = "cancel", !.g = g,
                                                !.pc = "cg_send_nothing"]
                /\ UNCHANGED <<timers, tasks, cancelled>>
           ELSE /\ timers' = clearTimer(timers, g)
                /\ games' = [gs EXCEPT ![g] = resetGameState(@)]
                /\ tasks' = AfterClear(tasks, g)
                /\ cancelled' = [cancelled EXCEPT ![g] = TRUE]
                /\ inbound' = [NoInbound EXCEPT !.op = "cancel", !.g = g,
                                                !.pc = "cg_send_cancelled"]
    /\ UNCHANGED <<stopped, ballots, timeouts, unhandled, gameNo>>

\* The handler's last await settles, or any of its awaits rejects: the
\* handler ends (the message loop catches a rejection) and the loop moves on.
InboundEnds ==
    /\ inbound.op # "none"
    /\ inbound' = NoInbound
    /\ UNCHANGED <<stopped, ballots, games, timers, timeouts, tasks, budget, unhandled, gameNo,
                   cancelled>>

(* ------------------------- inbound: votes ----------------------------- *)

\* The handler of a vote has nothing to wait for: it runs to its end in one
\* step, and the message loop then takes the next message (InboundEnds).
Handled(g, op, pc) == inbound' = [op |-> op, g |-> g, pc |-> pc]

HandleDurationVote_NoPhaseCheck(g, voterInboxId, duration) ==
    /\ Accepts(g)
    /\ Spend(g)
    /\ games' = [getGameState(games, g) EXCEPT ![g] =
                     recordDurationVote(@, voterInboxId, duration)]
    /\ Handled(g, "vote", "dv_recorded")
    /\ UNCHANGED <<stopped, ballots, timers, timeouts, tasks, unhandled, gameNo, cancelled>>

\* handleDurationVote: no await, so the whole method is one step
HandleDurationVote(g, voterInboxId, duration) ==
    /\ Accepts(g)
    /\ Spend(g)
    /\ LET gs == getGameState(games, g)
       IN  IF gs[g].status # "voting_duration"
           THEN games' = gs /\ Handled(g, "vote", "dv_ignored")
           ELSE /\ games' = [gs EXCEPT ![g] =
                                recordDurationVote(@, voterInboxId, duration)]
                /\ Handled(g, "vote", "dv_recorded")
    /\ UNCHANGED <<stopped, ballots, timers, timeouts, tasks, unhandled, gameNo, cancelled>>

\* handlePlayerVote: no await
HandlePlayerVote(g, voterInboxId, voteeInboxId) ==
    /\ Accepts(g)
    /\ Spend(g)
    /\ LET gs == getGameState(games, g)
       IN  IF gs[g].status # "voting"
           THEN games' = gs /\ Handled(g, "vote", "pv_ignored")
           ELSE /\ games' = [gs EXCEPT ![g] =
                                recordVote(@, voterInboxId, voteeInboxId)]
                /\ Handled(g, "vote", "pv_recorded")
    /\ UNCHANGED <<stopped, ballots, timers, timeouts, tasks, unhandled, gameNo, cancelled>>

\* A message the handlers drop without calling the manager
Dropped(g, pc) ==
    /\ Accepts(g)
    /\ Spend(g)
    /\ Handled(g, "vote", pc)
    /\ UNCHANGED <<stopped, ballots, games, timers, timeouts, tasks, unhandled, gameNo, cancelled>>

DigitValue ==
    [c \in {"0", "1", "2", "3", "4", "5", "6", "7", "8", "9"} |->
        CASE c = "0" -> 0 [] c = "1" -> 1 [] c = "2" -> 2 [] c = "3" -> 3
          [] c = "4" -> 4 [] c = "5" -> 5 [] c = "6" -> 6 [] c = "7" -> 7
          [] c = "8" -> 8 [] c = "9" -> 9]

\* the value of the decimal digits chars[1..n]
RECURSIVE DecimalValue(_, _)
DecimalValue(chars, n) ==
    IF n = 0 THEN 0
    ELSE 10 * DecimalValue(chars, n - 1) + DigitValue[chars[n]]

\* parseInt(string) for a string given as its characters, without sign or
\* radix prefix: leading blanks are skipped, the longest run of decimal
\* digits is converted and what follows it is ignored; NaN with no digit.
parseInt(chars) ==
    LET blanks == {n \in 0..Len(chars) : \A i \in 1..n : chars[i] = " "}
        start  == CHOOSE n \in blanks : \A m \in blanks : m <= n
        rest   == SubSeq(chars, start + 1, Len(chars))
        runs   == {n \in 0..Len(rest) :
                      \A i \in 1..n : rest[i] \in DOMAIN DigitValue}
        digits == CHOOSE n \in runs : \A m \in runs : m <= n
    IN  IF digits = 0 THEN [isNaN |-> TRUE, value |-> 0]
        ELSE [isNaN |-> FALSE, value |-> DecimalValue(rest, digits)]

\* id.startsWith(prefix), for the ids the model sends
startsWith(id, prefix) ==
    <<id, prefix>> \in { <<"duration-1", "duration-">>, <<"voting-1", "voting-">> }

IsAllowedDuration_Any(parsed) == ~parsed.isNaN

\* [5, 7, 10].includes(duration)
IsAllowedDuration(parsed) == ~parsed.isNaN /\ parsed.value \in GameDurations

\* handleIntentMessage: a button of a poll was tapped
HandleIntentMessage(g, voterInboxId, id, actionId) ==
    IF g \notin DOMAIN games THEN Dropped(g, "im_nosession")
    ELSE IF startsWith(id, "duration-")
    THEN IF IsAllowedDuration(parseInt(actionId))
         THEN HandleDurationVote(g, voterInboxId, parseInt(actionId).value)
         ELSE Dropped(g, "im_notallowed")
    ELSE IF startsWith(id, "voting-")
    THEN HandlePlayerVote(g, voterInboxId, actionId)
    ELSE Dropped(g, "im_other")

\* durationMap[number]: undefined (0) for any other key
durationMap(number) ==
    CASE number = "1" -> 5 [] number = "2" -> 7 [] number = "3" -> 10
      [] OTHER -> NoDuration

\* handleNumberResponse: the text "1", "2" or "3" as a fallback for the polls
HandleNumberResponse(g, senderInboxId, number) ==
    IF g \notin DOMAIN games THEN Dropped(g, "nr_nosession")
    ELSE IF games[g].status = "voting_duration"
    THEN IF durationMap(number) # NoDuration
         THEN HandleDurationVote(g, senderInboxId, durationMap(number))
         ELSE Dropped(g, "nr_nokey")
    ELSE IF games[g].status = "voting"
    THEN LET playerIndex == parseInt(<<number>>).value - 1
         IN  IF playerIndex >= 0 /\ playerIndex < Len(games[g].players)
             THEN HandlePlayerVote(g, senderInboxId,
                                   games[g].players[playerIndex + 1].inboxId)
             ELSE Dropped(g, "nr_noplayer")
    ELSE Dropped(g, "nr_nophase")

(* ------------------------ inbound: /status ---------------------------- *)

HandleStatusCommand_Creates(g) ==
    /\ Accepts(g)
    /\ Spend(g)
    /\ games' = getGameState(games, g)
    /\ inbound' = [op |-> "status", g |-> g,
                   pc |-> IF games'[g].status = "idle"
                          THEN "st_send_none" ELSE "st_send_status"]
    /\ UNCHANGED <<stopped, ballots, timers, timeouts, tasks, unhandled, gameNo,
                   cancelled>>

\* handleStatusCommand up to its await: getGameStatus is games.get(groupId);
\* "No active game" for no session or an idle one, else the phase summary
HandleStatusCommand(g) ==
    /\ Accepts(g)
    /\ Spend(g)
    /\ inbound' = [op |-> "status", g |-> g,
                   pc |-> IF g \notin DOMAIN games
                             \/ getGameStatus(games, g).status = "idle"
                          THEN "st_send_none" ELSE "st_send_status"]
    /\ UNCHANGED <<stopped, ballots, games, timers, timeouts, tasks, unhandled, gameNo,
                   cancelled>>

(* ------------------- timeout callbacks and their awaits --------------- *)

\* A vote handler has nothing to wait for, so what is left of it and of the
\* message loop's turn are microtasks: no timeout and no I/O completion runs
\* before they are done.
MacrotaskTurn == inbound.op # "vote"

Suspend(t) == tasks' = tasks (+) One(t)
Resume(t, u) == tasks' = (tasks (-) One(t)) (+) One(u)
Finish(t) == tasks' = tasks (-) One(t)
Suspended(pc) == {t \in BagToSet(tasks) : MacrotaskTurn /\ t.pc = pc}

\* The stored timeout of group g expires and its callback starts.  The Map
\* keeps the expired handle until setTimer or clearTimer replaces it.
Expires(g, kind) ==
    /\ MacrotaskTurn
    /\ g \in DOMAIN timers
    /\ timers[g].armed
    /\ timers[g].kind = kind
    /\ timers' = [timers EXCEPT ![g].armed = FALSE]

\* finalizeDurationVote up to its await
FinalizeDurationVote(g) ==
    /\ Expires(g, "duration")
    /\ LET gs == getGameState(games, g)
           winningDuration == calculateWinningDuration(gs[g])
           t == [Task(g, "fdv_send_novotes", timers[g].game)
                    EXCEPT !.counted = gs[g].durationVotes]
       IN  IF gs[g].status # "voting_duration"
           THEN games' = gs /\ UNCHANGED tasks
           ELSE IF winningDuration = NoDuration
           THEN games' = gs /\ Suspend(t)
           ELSE /\ games' = [gs EXCEPT ![g].selectedDuration = winningDuration]
                /\ Suspend([t EXCEPT !.pc = "fdv_send_selected"])
    /\ UNCHANGED <<stopped, ballots, timeouts, inbound, budget, unhandled, gameNo, cancelled>>

\* "No votes received" was sent: resetGameState
FinalizeDurationVoteAbort(t) ==
    /\ t \in Suspended("fdv_send_novotes")
    /\ games' = [games EXCEPT ![t.g] = resetGameState(@)]
    /\ tasks' = AfterClear(tasks (-) One(t), t.g)
    /\ UNCHANGED <<stopped, ballots, timers, timeouts, inbound, budget, unhandled, gameNo,
                   cancelled>>

\* "Duration selected" was sent: assignRoles up to conversation.members()
AssignRoles(t) ==
    /\ t \in Suspended("fdv_send_selected")
    /\ games' = [getGameState(games, t.g) EXCEPT ![t.g].status = "assigning_roles"]
    /\ Resume(t, [t EXCEPT !.pc = "ar_members", !.counted = << >>])
    /\ UNCHANGED <<stopped, ballots, timers, timeouts, inbound, budget, unhandled, gameNo,
                   cancelled>>

NonBot_KeepsBot(members) == members

\* memberInboxIds.filter(id => id !== this.client.inboxId)
NonBot(members) == SelectSeq(members, LAMBDA id : id # Bot)

\* the next member after position i that the add loop does not skip, or 0
NextToAdd(members, i) ==
    LET later == {j \in (i + 1)..Len(members) : members[j] # Bot}
    IN  IF later = {} THEN 0 ELSE CHOOSE j \in later : \A k \in later : j <= k

\* members() returned: too few players, or the first address lookup
AssignRolesMembers(t, members) ==
    /\ t \in Suspended("ar_members")
    /\ IF Len(NonBot(members)) < MinPlayers
       THEN Resume(t, [t EXCEPT !.pc = "ar_send_few"])
       ELSE Resume(t, [t EXCEPT !.pc = "ar_inbox", !.members = members,
                                !.i = NextToAdd(members, 0)])
    /\ UNCHANGED <<stopped, ballots, games, timers, timeouts, inbound, budget, unhandled, gameNo,
                   cancelled>>

\* "Not enough players" was sent: resetGameState
AssignRolesAbort(t) ==
    /\ t \in Suspended("ar_send_few")
    /\ games' = [games EXCEPT ![t.g] = resetGameState(@)]
    /\ tasks' = AfterClear(tasks (-) One(t), t.g)
    /\ UNCHANGED <<stopped, ballots, timers, timeouts, inbound, budget, unhandled, gameNo,
                   cancelled>>

NextDm_AllOrNothing(t, state) ==
    IF t.i + 1 <= Len(state.players)
    THEN [t EXCEPT !.pc = "ar_dm", !.i = t.i + 1]
    ELSE [t EXCEPT !.pc = IF t.dm < Len(state.players) THEN "ar_send_dmfail"
                          ELSE "ar_send_assigned",
                   !.i = 0]

\* The role-DM loop takes the next entry of gameState.players, if any, and
\* awaits its DM; with none left it awaits the group message that follows.
NextDm(t, state) ==
    IF t.i + 1 <= Len(state.players)
    THEN [t EXCEPT !.pc = "ar_dm", !.i = t.i + 1]
    ELSE [t EXCEPT !.pc = IF t.dm = 0 THEN "ar_send_dmfail"
                          ELSE "ar_send_assigned",
                   !.i = 0]

\* An address lookup returned: addPlayer, then the next lookup; after the
\* last one the imposter and the word are drawn and the first DM goes out.
AssignRolesAdd(t, imposterInboxId, secretWord) ==
    /\ t \in Suspended("ar_inbox")
    /\ imposterInboxId \in SeqToSet(NonBot(t.members))
    /\ secretWord \in SeqToSet(WORD_LIST)
    /\ LET gs == getGameState(games, t.g)
           added == addPlayer(gs[t.g], t.members[t.i])
           next == NextToAdd(t.members, t.i)
           drawn == [setImposter(added, imposterInboxId)
                        EXCEPT !.secretWord = secretWord]
       IN  IF next # 0
           THEN /\ games' = [gs EXCEPT ![t.g] = added]
                /\ Resume(t, [t EXCEPT !.i = next])
           ELSE /\ games' = [gs EXCEPT ![t.g] = drawn]
                /\ Resume(t, NextDm([t EXCEPT !.i = 0, !.dm = 0], drawn))
    /\ UNCHANGED <<stopped, ballots, timers, timeouts, inbound, budget, unhandled, gameNo,
                   cancelled>>

\* A role DM was delivered (counted) or failed (caught and logged)
AssignRolesDm(t, delivered) ==
    /\ t \in Suspended("ar_dm")
    /\ Resume(t, NextDm([t EXCEPT !.dm = IF delivered THEN @ + 1 ELSE @],
                        games[t.g]))
    /\ UNCHANGED <<stopped, ballots, games, timers, timeouts, inbound, budget, unhandled, gameNo,
                   cancelled>>

\* "Failed to send DMs" was sent: resetGameState
AssignRolesDmAbort(t) ==
    /\ t \in Suspended("ar_send_dmfail")
    /\ games' = [games EXCEPT ![t.g] = resetGameState(@)]
    /\ tasks' = AfterClear(tasks (-) One(t), t.g)
    /\ UNCHANGED <<stopped, ballots, timers, timeouts, inbound, budget, unhandled, gameNo,
                   cancelled>>

\* "Roles assigned" was sent: setTimeout(selectRandomSpeaker, 2000)
AssignRolesDone(t) ==
    /\ t \in Suspended("ar_send_assigned")
    /\ timeouts' = timeouts (+)
                   One(Timeout(t.g, "speaker", SpeakerDelaySeconds, t.game))
    /\ Finish(t)
    /\ UNCHANGED <<stopped, ballots, games, timers, inbound, budget, unhandled, gameNo, cancelled>>

\* selectRandomSpeaker up to its await.  With no players left the speaker is
\* undefined and reading speaker.inboxId throws.
SelectRandomSpeaker(to, speaker) ==
    /\ MacrotaskTurn
    /\ to \in BagToSet(timeouts) /\ to.kind = "speaker"
    /\ timeouts' = timeouts (-) One(to)
    /\ LET gs == getGameState(games, to.g)
       IN  IF Len(gs[to.g].players) = 0
           THEN /\ speaker = Undefined
                /\ games' = gs
                /\ unhandled' = unhandled \cup {to.g}
                /\ UNCHANGED tasks
           ELSE /\ hasPlayer(gs[to.g], speaker)
                /\ games' = [gs EXCEPT ![to.g].currentSpeakerInboxId = speaker]
                /\ Suspend(Task(to.g, "srs_send", to.game))
                /\ UNCHANGED unhandled
    /\ UNCHANGED <<stopped, ballots, timers, inbound, budget, gameNo, cancelled>>

\* (gameState.selectedDuration || 5)
Minutes(state) ==
    IF state.selectedDuration = NoDuration THEN DefaultDuration
    ELSE state.selectedDuration

\* The speaker announcement was sent: startDiscussionPhase
StartDiscussionPhase(t) ==
    /\ t \in Suspended("srs_send")
    /\ LET gs == getGameState(games, t.g)
           durationSeconds == Minutes(gs[t.g]) * 60
       IN  /\ games' = [gs EXCEPT ![t.g].status = "discussion",
                                  ![t.g].startedAt = "now",
                                  ![t.g].discussionEndTime = durationSeconds]
           /\ timers' = setTimer(timers, t.g, "discussion", durationSeconds,
                                 t.game)
    /\ Finish(t)
    /\ UNCHANGED <<stopped, ballots, timeouts, inbound, budget, unhandled, gameNo, cancelled>>

\* endDiscussionPhase up to its await
EndDiscussionPhase(g) ==
    /\ Expires(g, "discussion")
    /\ games' = getGameState(games, g)
    /\ IF games'[g].status # "discussion"
       THEN UNCHANGED tasks
       ELSE Suspend(Task(g, "edp_send", timers[g].game))
    /\ UNCHANGED <<stopped, ballots, timeouts, inbound, budget, unhandled, gameNo, cancelled>>

\* "TIME'S UP" was sent: startVotingPhase up to the poll send
StartVotingPhase(t) ==
    /\ t \in Suspended("edp_send")
    /\ LET gs == getGameState(games, t.g)
           playerArray == [i \in 1..Len(gs[t.g].players) |->
                              gs[t.g].players[i].inboxId]
       IN  /\ games' = [gs EXCEPT ![t.g].status = "voting",
                                  ![t.g].votingStartedAt = "now"]
           /\ Resume(t, [t EXCEPT !.pc = "svp_send", !.members = playerArray])
    /\ UNCHANGED <<stopped, ballots, timers, timeouts, inbound, budget, unhandled, gameNo,
                   cancelled>>

\* The accusation poll was sent: arm the 60-second voting deadline
StartVotingArm(t) ==
    /\ t \in Suspended("svp_send")
    /\ timers' = setTimer(timers, t.g, "voting", VotingSeconds, t.game)
    /\ Finish(t)
    /\ UNCHANGED <<stopped, ballots, games, timeouts, inbound, budget, unhandled, gameNo,
                   cancelled>>

\* finalizeVoting up to its await
FinalizeVoting(g) ==
    /\ Expires(g, "voting")
    /\ LET gs == getGameState(games, g)
           voteResults == calculateVoteResults(gs[g])
           votedOutInboxId == voteResults.votedOutInboxId
           t == [Task(g, "fv_send_draw", timers[g].game)
                    EXCEPT !.counted = gs[g].votes]
       IN  IF gs[g].status # "voting"
           THEN games' = gs /\ UNCHANGED tasks
           ELSE IF votedOutInboxId = Undefined
           THEN games' = gs /\ Suspend(t)
           ELSE IF ~hasPlayer(gs[g], votedOutInboxId)
           THEN games' = gs /\ Suspend([t EXCEPT !.pc = "fv_send_error"])
           ELSE /\ games' = [gs EXCEPT
                       ![g].votedOutInboxId = votedOutInboxId,
                       ![g].winner = determineWinner(gs[g], votedOutInboxId)]
                /\ Suspend([t EXCEPT !.pc = "fv_send_results"])
    /\ UNCHANGED <<stopped, ballots, timeouts, inbound, budget, unhandled, gameNo, cancelled>>

\* "No votes received" or "Error processing votes" was sent: resetGameState
FinalizeVotingAbort(t) ==
    /\ t \in Suspended("fv_send_draw") \cup Suspended("fv_send_error")
    /\ games' = [games EXCEPT ![t.g] = resetGameState(@)]
    /\ tasks' = AfterClear(tasks (-) One(t), t.g)
    /\ UNCHANGED <<stopped, ballots, timers, timeouts, inbound, budget, unhandled, gameNo,
                   cancelled>>

\* The results were sent: status 'ended', and the unstored 5-second cleanup
FinalizeVotingEnd(t) ==
    /\ t \in Suspended("fv_send_results")
    /\ games' = [games EXCEPT ![t.g].status = "ended"]
    /\ timeouts' = timeouts (+)
                   One(Timeout(t.g, "cleanup", CleanupSeconds, t.game))
    /\ Finish(t)
    /\ UNCHANGED <<stopped, ballots, timers, inbound, budget, unhandled, gameNo, cancelled>>

\* The cleanup timeout expires: resetGameState on the captured session
Cleanup(to) ==
    /\ MacrotaskTurn
    /\ to \in BagToSet(timeouts) /\ to.kind = "cleanup"
    /\ timeouts' = timeouts (-) One(to)
    /\ games' = [games EXCEPT ![to.g] = resetGameState(@)]
    /\ tasks' = AfterClear(tasks, to.g)
    /\ UNCHANGED <<stopped, ballots, timers, inbound, budget, unhandled, gameNo, cancelled>>

\* An awaited collaborator call rejects inside a timeout callback.  Only the
\* role-DM loop has a try/catch; everywhere else the callback's promise is
\* rejected with nobody to handle it, and the callback does nothing more.
CallbackRejects(t) ==
    /\ MacrotaskTurn
    /\ t \in BagToSet(tasks)
    /\ t.pc # "ar_dm"
    /\ Finish(t)
    /\ unhandled' = unhandled \cup {t.g}
    /\ UNCHANGED <<stopped, ballots, games, timers, timeouts, inbound, budget, gameNo, cancelled>>

(* --------------------------- specification ---------------------------- *)

Next ==
    \/ \E g \in Groups : StartGame(g)
    \/ \E g \in Groups, m \in MemberSnapshots : StartGameMembers(g, m)
    \/ \E g \in Groups : StartGameArm(g)
    \/ \E g \in Groups : CancelGame(g)
    \/ InboundEnds
    \/ \E g \in Groups, v \in Voters, a \in DurationActionIds :
           HandleIntentMessage(g, v, "duration-1", a)
    \/ \E g \in Groups, v \in Voters, w \in Votees :
           HandleIntentMessage(g, v, "voting-1", w)
    \/ \E g \in Groups, v \in Voters, n \in Numbers :
           HandleNumberResponse(g, v, n)
    \/ \E g \in Groups : FinalizeDurationVote(g)
    \/ \E t \in BagToSet(tasks) : FinalizeDurationVoteAbort(t)
    \/ \E t \in BagToSet(tasks) : AssignRoles(t)
    \/ \E t \in BagToSet(tasks), m \in MemberSnapshots : AssignRolesMembers(t, m)
    \/ \E t \in BagToSet(tasks) : AssignRolesAbort(t)
    \/ \E t \in BagToSet(tasks), p \in Participants, w \in SeqToSet(WORD_LIST) :
           AssignRolesAdd(t, p, w)
    \/ \E t \in BagToSet(tasks), ok \in BOOLEAN : AssignRolesDm(t, ok)
    \/ \E t \in BagToSet(tasks) : AssignRolesDmAbort(t)
    \/ \E t \in BagToSet(tasks) : AssignRolesDone(t)
    \/ \E to \in BagToSet(timeouts), p \in Participants \cup {Undefined} :
           SelectRandomSpeaker(to, p)
    \/ \E t \in BagToSet(tasks) : StartDiscussionPhase(t)
    \/ \E g \in Groups : EndDiscussionPhase(g)
    \/ \E t \in BagToSet(tasks) : StartVotingPhase(t)
    \/ \E t \in BagToSet(tasks) : StartVotingArm(t)
    \/ \E g \in Groups : FinalizeVoting(g)
    \/ \E t \in BagToSet(tasks) : FinalizeVotingAbort(t)
    \/ \E t \in BagToSet(tasks) : FinalizeVotingEnd(t)
    \/ \E to \in BagToSet(timeouts) : Cleanup(to)
    \/ \E t \in BagToSet(tasks) : CallbackRejects(t)

Spec == Init /\ [][Next]_vars

\* Two groups use the bot side by side: one GameManager, one message loop.
InitGroups ==
    /\ games = << >>
    /\ timers = << >>
    /\ timeouts = EmptyBag
    /\ tasks = EmptyBag
    /\ inbound = NoInbound
    /\ budget = [g \in Groups |-> IF g = "g1" THEN MaxCommands - 1
                                   ELSE MaxCommandsOther]
    /\ unhandled = {}
    /\ gameNo = [g \in Groups |-> 0]
    /\ cancelled = [g \in Groups |-> FALSE]
    /\ ballots = << >>
    /\ stopped = FALSE

SpecGroups == InitGroups /\ [][Next]_vars

\* A game under way: /start was handled in group g1 with three participants,
\* both polls went out, the duration deadline is armed and p1 has tapped the
\* 7-minute button.  What the group sends next is left open.
VotedGroup == "g1"

InitVoted ==
    /\ games = (VotedGroup :>
                   recordDurationVote(BeginGame(createGameState(VotedGroup)),
                                      "p1", 7))
    /\ timers = setTimer(<< >>, VotedGroup, "duration", DurationVoteSeconds, 1)
    /\ timeouts = EmptyBag
    /\ tasks = EmptyBag
    /\ inbound = NoInbound
    /\ budget = [g \in Groups |-> IF g = VotedGroup THEN MaxCommands - 1 ELSE 0]
    /\ unhandled = {}
    /\ gameNo = [g \in Groups |-> IF g = VotedGroup THEN 1 ELSE 0]
    /\ cancelled = [g \in Groups |-> FALSE]
    /\ ballots = << >>
    /\ stopped = FALSE

SpecVoted == InitVoted /\ [][Next]_vars

\* The same program with /status among the commands a group sends
NextStatus ==
    \/ Next
    \/ \E g \in Groups : HandleStatusCommand(g)

SpecStatus == Init /\ [][NextStatus]_vars

\* shutdown(): clearTimeout on every stored handle, then timers.clear()
Shutdown ==
    /\ MacrotaskTurn
    /\ ~stopped
    /\ timers' = << >>
    /\ stopped' = TRUE
    /\ UNCHANGED <<games, timeouts, tasks, inbound, budget, unhandled, gameNo,
                   cancelled, ballots>>

\* The program with a shutdown() at any moment; everything already under
\* way when it returns goes on.
NextShutdown ==
    \/ Next
    \/ Shutdown

SpecShutdown == Init /\ [][NextShutdown]_vars

(* ---------------- the recording and tally functions alone ------------- *)

\* One session with its players in place; every ballot goes to
\* recordDurationVote and, as the accusation of AccusedFor(duration), to
\* recordVote; Tally then applies both tally functions the way the deadline
\* callbacks do and stores what they return.
TallyGroup == "g1"

RECURSIVE AddPlayers(_, _)
AddPlayers(state, inboxIds) ==
    IF inboxIds = << >> THEN state
    ELSE AddPlayers(addPlayer(state, Head(inboxIds)), Tail(inboxIds))

InitTally ==
    /\ games = (TallyGroup :>
                   [AddPlayers(createGameState(TallyGroup), <<"p1", "p2", "p3">>)
                       EXCEPT !.status = "voting"])
    /\ timers = << >>
    /\ timeouts = EmptyBag
    /\ tasks = EmptyBag
    /\ inbound = NoInbound
    /\ budget = [g \in Groups |-> 0]
    /\ unhandled = {}
    /\ gameNo = [g \in Groups |-> 0]
    /\ cancelled = [g \in Groups |-> FALSE]
    /\ ballots = << >>
    /\ stopped = FALSE

RecordBallot(voterInboxId, duration) ==
    /\ Len(ballots) < MaxBallots
    /\ games[TallyGroup].status = "voting"
    /\ ballots' = Append(ballots, [voter |-> voterInboxId, duration |-> duration])
    /\ games' = [games EXCEPT ![TallyGroup] =
                     recordVote(recordDurationVote(@, voterInboxId, duration),
                                voterInboxId, AccusedFor(duration))]
    /\ UNCHANGED <<stopped, timers, timeouts, tasks, inbound, budget, unhandled,
                   gameNo,
                   cancelled>>

Tally ==
    /\ games[TallyGroup].status = "voting"
    /\ games' = [games EXCEPT
           ![TallyGroup].selectedDuration = calculateWinningDuration(games[TallyGroup]),
           ![TallyGroup].votedOutInboxId =
               calculateVoteResults(games[TallyGroup]).votedOutInboxId,
           ![TallyGroup].status = "ended"]
    /\ UNCHANGED <<stopped, timers, timeouts, tasks, inbound, budget, unhandled,
                   gameNo,
                   cancelled, ballots>>

NextTally ==
    \/ \E v \in TallyVoters, d \in TallyDurations : RecordBallot(v, d)
    \/ Tally

SpecTally == InitTally /\ [][NextTally]_vars

(* ------------------------------ claims -------------------------------- *)

ActivePhases == {"voting_duration", "assigning_roles", "discussion", "voting"}

\* the fields startGame is said to clear
Fresh(state) ==
    /\ state.durationVotes = << >>
    /\ state.votes = << >>
    /\ state.players = << >>
    /\ state.selectedDuration = NoDuration
    /\ state.imposterInboxId = Undefined
    /\ state.secretWord = Undefined
    /\ state.votedOutInboxId = Undefined
    /\ state.winner = Undefined

\* every optional field unset and every collection empty
AllUnset(state) ==
    /\ Fresh(state)
    /\ state.startedAt = Undefined
    /\ state.discussionEndTime = NoTime
    /\ state.currentSpeakerInboxId = Undefined
    /\ state.votingStartedAt = Undefined

\* timeouts of group g that are pending: the stored one, if not yet expired
\* or cleared, and every unstored one
StoredArmed(g) == g \in DOMAIN timers /\ timers[g].armed

Unstored(g) == {to \in BagToSet(timeouts) : to.g = g}

RECURSIVE Copies(_, _)
Copies(bag, S) ==
    IF S = {} THEN 0
    ELSE LET x == CHOOSE y \in S : TRUE
         IN  CopiesIn(x, bag) + Copies(bag, S \ {x})

ArmedTimers(g) ==
    (IF StoredArmed(g) THEN 1 ELSE 0) + Copies(timeouts, Unstored(g))

\* a step of the callback suspended as t
CallbackStep(t) ==
    \/ FinalizeDurationVoteAbort(t)
    \/ AssignRoles(t)
    \/ \E m \in MemberSnapshots : AssignRolesMembers(t, m)
    \/ AssignRolesAbort(t)
    \/ \E p \in Participants, w \in SeqToSet(WORD_LIST) :
           AssignRolesAdd(t, p, w)
    \/ \E ok \in BOOLEAN : AssignRolesDm(t, ok)
    \/ AssignRolesDmAbort(t)
    \/ AssignRolesDone(t)
    \/ StartDiscussionPhase(t)
    \/ StartVotingPhase(t)
    \/ StartVotingArm(t)
    \/ FinalizeVotingAbort(t)
    \/ FinalizeVotingEnd(t)
    \/ CallbackRejects(t)

\* the unstored timeout `to` expires
TimeoutStep(to) ==
    \/ Cleanup(to)
    \/ \E p \in Participants \cup {Undefined} : SelectRandomSpeaker(to, p)

\* the stored timeout of group g expires
TimerStep(g) ==
    \/ FinalizeDurationVote(g)
    \/ EndDiscussionPhase(g)
    \/ FinalizeVoting(g)

\* C1: startGame on a session in an active phase is a no-op: it sends
\* "already in progress" and none of its steps changes the session (phase,
\* votes, players), the stored deadline or any pending timeout.
C1_StartGameWhileActiveIsNoOp ==
    [][ \A g \in Groups :
          /\ (StartGame(g) /\ g \in DOMAIN games
                /\ games[g].status \in ActivePhases)
               => /\ inbound'.pc = "sg_send_active"
                  /\ UNCHANGED <<games, timers, timeouts, tasks>>
          /\ (inbound.g = g /\ inbound.pc = "sg_send_active" /\ InboundEnds)
               => UNCHANGED <<games, timers, timeouts, tasks>> ]_vars

C1_Witness ==
    \E g \in DOMAIN games :
        /\ inbound.op = "start" /\ inbound.g = g
        /\ inbound.pc = "sg_send_active"
        /\ games[g].status = "assigning_roles"
        /\ games[g].durationVotes # << >>

\* C2: when a startGame that passed both checks completes (its deadline is
\* armed), the session is in voting_duration with durationVotes, votes and
\* players empty and the five optional fields unset, and the stored timeout
\* is the armed 60-second duration deadline.
C2_StartGameLeavesFreshVotingDuration ==
    [][ \A g \in Groups :
          StartGameArm(g)
            => /\ games'[g].status = "voting_duration"
               /\ Fresh(games'[g])
               /\ g \in DOMAIN timers'
               /\ timers'[g].armed
               /\ timers'[g].kind = "duration"
               /\ timers'[g].delay = 60 ]_vars

\* C3: startGame on a group with fewer than 3 members sends "not enough
\* players" and none of its steps changes the session or arms a timeout.
C3_StartGameTooFewMembersIsNoOp ==
    [][ \A g \in Groups :
          /\ \A m \in MemberSnapshots :
               (StartGameMembers(g, m) /\ Len(m) < 3)
                 => /\ inbound'.pc = "sg_send_few"
                    /\ UNCHANGED <<games, timers, timeouts, tasks>>
          /\ (inbound.g = g /\ inbound.pc = "sg_send_few" /\ InboundEnds)
               => UNCHANGED <<games, timers, timeouts, tasks>> ]_vars

C3_Witness ==
    \E g \in DOMAIN games :
        /\ inbound.op = "start" /\ inbound.g = g
        /\ inbound.pc = "sg_send_few"
        /\ games[g].status = "idle"
        /\ AllUnset(games[g])
        /\ ArmedTimers(g) = 0

\* C4: after cancelGame has reset a session, the session stays idle with
\* every field cleared until the next startGame begins a game.
C4_CancelledGameStaysIdle ==
    \A g \in Groups :
        cancelled[g] => games[g].status = "idle" /\ AllUnset(games[g])

\* C5: when cancelGame returns to its caller for a session that was in an
\* active phase (it has cleared the timer, reset the session and handed the
\* "Game cancelled" message to the transport), the phase is idle, every
\* optional field is unset, players, votes and durationVotes are empty, and
\* the timers table has no entry for the group.
C5_CancelActiveResetsAndClearsTimer ==
    [][ \A g \in Groups :
          (CancelGame(g) /\ g \in DOMAIN games
             /\ games[g].status \in ActivePhases)
            => /\ inbound'.pc = "cg_send_cancelled"
               /\ games'[g].status = "idle"
               /\ AllUnset(games'[g])
               /\ g \notin DOMAIN timers' ]_vars

C5_Witness ==
    \E g \in DOMAIN games :
        /\ inbound.op = "cancel" /\ inbound.g = g
        /\ inbound.pc = "cg_send_cancelled"
        /\ cancelled[g]
        /\ games[g].status = "idle"
        /\ AllUnset(games[g])
        /\ g \notin DOMAIN timers

\* C6: cancelGame on a session whose phase is idle or ended sends "nothing
\* to cancel" and none of its steps changes the session, the stored timer
\* or any pending timeout.
C6_CancelInactiveIsNoOp ==
    [][ \A g \in Groups :
          /\ (CancelGame(g) /\ g \in DOMAIN games
                /\ games[g].status \in {"idle", "ended"})
               => /\ inbound'.pc = "cg_send_nothing"
                  /\ UNCHANGED <<games, timers, timeouts, tasks>>
          /\ (inbound.g = g /\ inbound.pc = "cg_send_nothing" /\ InboundEnds)
               => UNCHANGED <<games, timers, timeouts, tasks>> ]_vars

C6_Witness ==
    \E g \in DOMAIN games :
        /\ inbound.op = "cancel" /\ inbound.g = g
        /\ inbound.pc = "cg_send_nothing"
        /\ games[g].status = "ended"
        /\ games[g].winner # Undefined
        /\ ArmedTimers(g) = 1

\* C7: a timeout scheduled by an earlier game of the group (its stored
\* deadline, its unstored speaker or cleanup timeout, or the continuation of
\* one of their callbacks) never changes the session once a later game has
\* begun.
C7_EarlierGamesTimersLeaveSessionAlone ==
    [][ \A g \in Groups :
          (\/ \E t \in BagToSet(tasks) :
                 t.g = g /\ t.game < gameNo[g] /\ CallbackStep(t)
           \/ \E to \in BagToSet(timeouts) :
                 to.g = g /\ to.game < gameNo[g] /\ TimeoutStep(to)
           \/ StoredArmed(g) /\ timers[g].game < gameNo[g] /\ TimerStep(g))
            => games'[g] = games[g] ]_vars

\* C8: every group has at most one pending timeout, counting the stored
\* deadline and the unstored speaker and cleanup timeouts.
C8_AtMostOneArmedTimer == \A g \in Groups : ArmedTimers(g) <= 1

\* C9: while the session is still in the phase whose deadline callback has
\* computed its plurality, the recorded votes are exactly the votes that
\* were counted: no vote is recorded after its phase's tally.
C9_RecordedVotesAreCounted ==
    \A t \in BagToSet(tasks) :
        /\ (t.pc \in {"fdv_send_novotes", "fdv_send_selected"}
              /\ t.game = gameNo[t.g]
              /\ games[t.g].status = "voting_duration")
             => games[t.g].durationVotes = t.counted
        /\ (t.pc \in {"fv_send_draw", "fv_send_error", "fv_send_results"}
              /\ t.game = gameNo[t.g]
              /\ games[t.g].status = "voting")
             => games[t.g].votes = t.counted

\* something will still act on group g: a pending timeout, a suspended
\* callback or the inbound handler in progress
Pending(g) ==
    \/ ArmedTimers(g) > 0
    \/ \E t \in BagToSet(tasks) : t.g = g
    \/ inbound.g = g

\* C10: no failure leaves a session in an active phase with nothing armed,
\* and no rejection leaves a timeout callback unhandled.
C10_FailuresResetTheSession ==
    /\ unhandled = {}
    /\ \A g \in DOMAIN games :
          games[g].status \in ActivePhases => Pending(g)

\* what the manager holds for group h: its session, its stored timeout, its
\* unstored timeouts and its suspended callbacks
SessionOf(gs, h) == IF h \in DOMAIN gs THEN <<gs[h]>> ELSE << >>

TimerOf(tm, h) == IF h \in DOMAIN tm THEN <<tm[h]>> ELSE << >>

BagOf(bag, h) == [x \in {y \in BagToSet(bag) : y.g = h} |-> bag[x]]

\* any step keyed by group g: an inbound command of g, a step of its
\* handler, the expiry of one of its timeouts, a step of one of its callbacks
GroupStep(g) ==
    \/ StartGame(g)
    \/ \E m \in MemberSnapshots : StartGameMembers(g, m)
    \/ StartGameArm(g)
    \/ CancelGame(g)
    \/ inbound.g = g /\ InboundEnds
    \/ \E v \in Voters, a \in DurationActionIds :
           HandleIntentMessage(g, v, "duration-1", a)
    \/ \E v \in Voters, w \in Votees : HandleIntentMessage(g, v, "voting-1", w)
    \/ \E v \in Voters, n \in Numbers : HandleNumberResponse(g, v, n)
    \/ TimerStep(g)
    \/ \E to \in BagToSet(timeouts) : to.g = g /\ TimeoutStep(to)
    \/ \E t \in BagToSet(tasks) : t.g = g /\ CallbackStep(t)

\* C11: a step keyed by one group (startGame, a vote, cancelGame, a timeout
\* firing or a continuation of its callback) leaves every other group's
\* session, stored deadline, unstored timeouts and suspended callbacks
\* unchanged.
C11_OtherGroupsUntouched ==
    [][ \A g \in Groups : GroupStep(g) =>
          \A h \in Groups \ {g} :
              /\ SessionOf(games', h) = SessionOf(games, h)
              /\ TimerOf(timers', h) = TimerOf(timers, h)
              /\ BagOf(timeouts', h) = BagOf(timeouts, h)
              /\ BagOf(tasks', h) = BagOf(tasks, h) ]_vars

\* one group was cancelled while the other kept its poll and its deadline
C11_Witness ==
    /\ cancelled["g1"]
    /\ "g1" \notin DOMAIN timers
    /\ "g2" \in DOMAIN games
    /\ games["g2"].status = "voting_duration"
    /\ StoredArmed("g2")

\* C12: handleDurationVote on a session whose phase is not voting_duration
\* changes nothing: durationVotes and every other field of the session stay
\* as they were, and no timeout or callback is touched.
C12_DurationVoteOutsidePhaseIsNoOp ==
    [][ \A g \in Groups, v \in Voters, d \in GameDurations :
          (HandleDurationVote(g, v, d)
             /\ getGameState(games, g)[g].status # "voting_duration")
            => /\ games' = getGameState(games, g)
               /\ inbound'.pc = "dv_ignored"
               /\ UNCHANGED <<timers, timeouts, tasks>> ]_vars

\* a duration button tapped during role assignment, after votes were counted
C12_Witness ==
    \E g \in DOMAIN games :
        /\ inbound.g = g /\ inbound.pc = "dv_ignored"
        /\ games[g].status = "assigning_roles"
        /\ games[g].durationVotes # << >>

\* the positions in ballots of voter v's submissions
BallotsOf(v) == {i \in 1..Len(ballots) : ballots[i].voter = v}

\* C13: after any sequence of recordDurationVote calls, durationVotes holds
\* no entry for a voter who never voted and exactly one entry for a voter who
\* did, carrying the duration of that voter's latest submission.
C13_OneDurationVotePerVoterTheLatest ==
    \A v \in TallyVoters :
        LET dv == games[TallyGroup].durationVotes
            entries == {i \in 1..Len(dv) : dv[i].voterInboxId = v}
        IN  IF BallotsOf(v) = {} THEN entries = {}
            ELSE /\ Cardinality(entries) = 1
                 /\ \A i \in entries :
                       \E k \in BallotsOf(v) :
                           /\ \A j \in BallotsOf(v) : j <= k
                           /\ dv[i].duration = ballots[k].duration

\* a voter changed their mind: two ballots, different durations, one entry
C13_Witness ==
    \E v \in TallyVoters :
        /\ \E i, j \in BallotsOf(v) : ballots[i].duration # ballots[j].duration
        /\ Len(games[TallyGroup].durationVotes) >= 2
        /\ Len(games[TallyGroup].durationVotes) < Len(ballots)

\* C14: a duration vote whose value is not 5, 7 or 10 is ignored, whether it
\* arrives as a button intent or as a numeric reply: every recorded duration
\* vote, and selectedDuration when set, is one of 5, 7 and 10.
C14_OnlyAllowedDurations ==
    \A g \in DOMAIN games :
        /\ \A i \in 1..Len(games[g].durationVotes) :
              games[g].durationVotes[i].duration \in {5, 7, 10}
        /\ games[g].selectedDuration # NoDuration
             => games[g].selectedDuration \in {5, 7, 10}

\* an intent carrying "6" or "m" was dropped while the poll was open and
\* already held a vote
C14_Witness ==
    \E g \in DOMAIN games :
        /\ inbound.g = g /\ inbound.pc = "im_notallowed"
        /\ games[g].status = "voting_duration"
        /\ Len(games[g].durationVotes) = 1

\* C15: when the duration deadline fires in voting_duration with no duration
\* vote recorded, the callback picks no default (selectedDuration stays
\* unset, the session is untouched) and waits for its "No votes received"
\* notice; its only continuation resets the session to idle with every
\* field unset and ends the callback, so role assignment is never started.
C15_NoVotesAbortsTheGame ==
    [][ /\ \A g \in Groups :
             (FinalizeDurationVote(g) /\ g \in DOMAIN games
                /\ games[g].status = "voting_duration"
                /\ games[g].durationVotes = << >>)
               => /\ games' = games
                  /\ games'[g].selectedDuration = NoDuration
                  /\ tasks' = tasks (+)
                        One(Task(g, "fdv_send_novotes", timers[g].game))
                  /\ ~timers'[g].armed
                  /\ timeouts' = timeouts
        /\ \A t \in BagToSet(tasks) :
             (t.pc = "fdv_send_novotes" /\ CallbackStep(t))
               => \/ CallbackRejects(t)
                  \/ /\ games'[t.g].status = "idle"
                     /\ AllUnset(games'[t.g])
                     /\ BagCardinality(tasks') = BagCardinality(tasks) - 1
                     /\ UNCHANGED <<timers, timeouts>> ]_vars

\* the only command was the start: the poll ran out without a vote and the
\* session is idle again, its expired deadline still in the timers table
C15_Witness ==
    /\ budget["g1"] = MaxCommands - 1
    /\ gameNo["g1"] = 1
    /\ "g1" \in DOMAIN timers
    /\ timers["g1"].kind = "duration" /\ ~timers["g1"].armed
    /\ tasks = EmptyBag /\ unhandled = {}
    /\ games["g1"].status = "idle"
    /\ AllUnset(games["g1"])

\* how many of the recorded duration votes chose d
VoteCount(durationVotes, d) ==
    Cardinality({i \in 1..Len(durationVotes) : durationVotes[i].duration = d})

\* d is a voted duration that no other duration outnumbers
IsPlurality(durationVotes, d) ==
    /\ d # NoDuration
    /\ VoteCount(durationVotes, d) >= 1
    /\ \A e \in GameDurations :
          VoteCount(durationVotes, e) <= VoteCount(durationVotes, d)

\* C16: when the duration deadline fires in voting_duration with at least
\* one duration vote recorded, selectedDuration is set to a voted duration
\* that no other duration outnumbers among the recorded votes, and when the
\* callback then moves the session to assigning_roles, the session carries
\* such a selectedDuration.
C16_VotesSelectPluralityAndAssignRoles ==
    [][ /\ \A g \in Groups :
             (FinalizeDurationVote(g) /\ g \in DOMAIN games
                /\ games[g].status = "voting_duration"
                /\ games[g].durationVotes # << >>)
               => /\ IsPlurality(games'[g].durationVotes,
                                 games'[g].selectedDuration)
                  /\ \E t \in BagToSet(tasks') :
                        t.g = g /\ t.pc = "fdv_send_selected"
        /\ \A t \in BagToSet(tasks) :
             (t.pc = "fdv_send_selected" /\ AssignRoles(t))
               => /\ games'[t.g].status = "assigning_roles"
                  /\ IsPlurality(games'[t.g].durationVotes,
                                 games'[t.g].selectedDuration) ]_vars

\* The ballots that count: each voter's latest one.  A counted ballot arrived
\* at its position in the submission order.
Counted ==
    {i \in 1..Len(ballots) :
        \A j \in (i + 1)..Len(ballots) : ballots[j].voter # ballots[i].voter}

CountedFor(d) == {i \in Counted : ballots[i].duration = d}

TopCount ==
    LET counts == {Cardinality(CountedFor(d)) : d \in TallyDurations}
    IN  CHOOSE c \in counts : \A e \in counts : e <= c

Tied == {d \in TallyDurations : Cardinality(CountedFor(d)) = TopCount}

Arrival(d) == CHOOSE i \in CountedFor(d) : \A j \in CountedFor(d) : i <= j

\* among the options with the top count, the one whose vote arrived first
EarliestTied == CHOOSE d \in Tied : \A e \in Tied : Arrival(d) <= Arrival(e)

Tallied == games[TallyGroup].status = "ended" /\ ballots # << >>

\* C17: for every sequence of submissions, re-votes included, both tallies
\* pick, among the options that end with the top count, the one whose
\* counted vote arrived earliest in submission order.
C17_TieGoesToEarliestArrival ==
    Tallied =>
        /\ games[TallyGroup].selectedDuration = EarliestTied
        /\ games[TallyGroup].votedOutInboxId = AccusedFor(EarliestTied)

DistinctVoters ==
    \A i, j \in 1..Len(ballots) : i # j => ballots[i].voter # ballots[j].voter

\* the position at which some option's running count first equals TopCount
FirstToReachTop ==
    LET reached == {k \in 1..Len(ballots) :
                       Cardinality({i \in 1..k : ballots[i].duration
                                                  = ballots[k].duration})
                         = TopCount}
    IN  CHOOSE k \in reached : \A m \in reached : k <= m

\* C18 as stated: with votes from distinct voters, the winning duration is
\* the first one whose running count, replaying the votes in arrival order,
\* reaches the final top count.
C18_WinnerIsFirstToReachTopCount ==
    (Tallied /\ DistinctVoters)
        => games[TallyGroup].selectedDuration = ballots[FirstToReachTop].duration

\* C18 amended: with votes from distinct voters, the winning duration is,
\* among the durations with the top count, the one that received its first
\* vote earliest.
C18_WinnerIsTopCountWithEarliestFirstVote ==
    (Tallied /\ DistinctVoters)
        => LET d == games[TallyGroup].selectedDuration
           IN  /\ d \in Tied
               /\ \A e \in Tied : Arrival(d) <= Arrival(e)

\* votes 5, 7, 7, 5: 7 is first to reach two votes, 5 was voted first
C18_Witness ==
    /\ Tallied /\ DistinctVoters
    /\ Cardinality(Tied) = 2
    /\ ballots[FirstToReachTop].duration # ballots[1].duration
    /\ games[TallyGroup].selectedDuration = ballots[1].duration

\* C19: fed the same sequence of submissions, re-votes included, the
\* duration tally and the accusation tally select corresponding options.
C19_BothTalliesSelectTheSameOption ==
    games[TallyGroup].status = "ended"
        => games[TallyGroup].votedOutInboxId
             = AccusedFor(games[TallyGroup].selectedDuration)

\* C20: in every reachable state, selectedDuration is set exactly when the
\* phase is past voting_duration (assigning_roles, discussion, voting or
\* ended).
C20_SelectedDurationIffPastDurationVoting ==
    \A g \in DOMAIN games :
        games[g].selectedDuration # NoDuration
            <=> games[g].status \in
                    {"assigning_roles", "discussion", "voting", "ended"}

\* the set-once fields of `new` hold what they held in `old`, or are unset
SetOnceKept(old, new) ==
    /\ old.selectedDuration # NoDuration
         => new.selectedDuration \in {old.selectedDuration, NoDuration}
    /\ old.imposterInboxId # Undefined
         => new.imposterInboxId \in {old.imposterInboxId, Undefined}
    /\ old.secretWord # Undefined
         => new.secretWord \in {old.secretWord, Undefined}
    /\ old.votedOutInboxId # Undefined
         => new.votedOutInboxId \in {old.votedOutInboxId, Undefined}
    /\ old.winner # Undefined
         => new.winner \in {old.winner, Undefined}

\* C21: once selectedDuration, imposterInboxId, secretWord, votedOutInboxId
\* or winner of a session is set, no step changes it to a different value;
\* it can only be unset again by a reset of the session.
C21_SetOnceFieldsKeepTheirValue ==
    [][\A g \in DOMAIN games : SetOnceKept(games[g], games'[g])]_vars

\* C22: assignRoles counts the member snapshot without the bot; with fewer
\* than three left it sends "Not enough players" and, once that is sent,
\* resets the session: idle, no players, no imposter, no secret word.  With
\* three or more it goes on to add the players, never the bot.
C22_TooFewPlayersAbortsRoleAssignment ==
    [][\A t \in BagToSet(tasks) :
          /\ \A m \in MemberSnapshots :
                AssignRolesMembers(t, m)
                    => /\ games' = games
                       /\ \E u \in BagToSet(tasks') :
                             /\ u.g = t.g /\ u.game = t.game
                             /\ u.pc = IF Cardinality(SeqToSet(m) \ {Bot})
                                          < MinPlayers
                                       THEN "ar_send_few" ELSE "ar_inbox"
                             /\ u.pc = "ar_inbox" => m[u.i] # Bot
          /\ AssignRolesAbort(t)
                => /\ games'[t.g].status = "idle"
                   /\ AllUnset(games'[t.g])
                   /\ BagCardinality(tasks') < BagCardinality(tasks)
      ]_vars

\* the snapshot had fewer than three participants besides the bot: "Not
\* enough players" is being sent for a game whose duration was selected
C22_Witness ==
    \E t \in BagToSet(tasks) :
        /\ t.pc = "ar_send_few"
        /\ games[t.g].status = "assigning_roles"
        /\ games[t.g].selectedDuration # NoDuration

\* C23: in every reachable state a session whose imposterInboxId is set has
\* that identity among its players, flagged isImposter, and no other player
\* is flagged.
C23_ImposterIsTheOneFlaggedPlayer ==
    \A g \in DOMAIN games :
        games[g].imposterInboxId # Undefined
            => /\ hasPlayer(games[g], games[g].imposterInboxId)
               /\ \A i \in 1..Len(games[g].players) :
                     games[g].players[i].isImposter
                         <=> games[g].players[i].inboxId
                               = games[g].imposterInboxId

\* C24: the role-DM loop awaits one DM per entry of players and goes on
\* whether it was delivered or not; after the last one it announces failure
\* when no DM was delivered, and then resets the session (idle, everything
\* unset), and otherwise announces the roles and schedules the speaker
\* draw, whose announcement is followed by status discussion with the
\* discussion deadline armed.
C24_RoleDmFailuresAreToleratedUnlessTotal ==
    [][\A t \in BagToSet(tasks) :
          /\ \A ok \in BOOLEAN :
                AssignRolesDm(t, ok)
                    => LET d == t.dm + (IF ok THEN 1 ELSE 0)
                       IN  /\ games' = games
                           /\ \E u \in BagToSet(tasks') :
                                 /\ u.g = t.g /\ u.game = t.game /\ u.dm = d
                                 /\ IF t.i < Len(games[t.g].players)
                                    THEN u.pc = "ar_dm" /\ u.i = t.i + 1
                                    ELSE u.pc = IF d = 0 THEN "ar_send_dmfail"
                                                ELSE "ar_send_assigned"
          /\ AssignRolesDmAbort(t)
                => /\ t.dm = 0
                   /\ games'[t.g].status = "idle"
                   /\ AllUnset(games'[t.g])
                   /\ BagCardinality(tasks') < BagCardinality(tasks)
          /\ AssignRolesDone(t)
                => /\ t.dm > 0
                   /\ games' = games
                   /\ CopiesIn(Timeout(t.g, "speaker", SpeakerDelaySeconds, t.game),
                               timeouts')
                        = 1 + CopiesIn(Timeout(t.g, "speaker",
                                               SpeakerDelaySeconds, t.game),
                                       timeouts)
          /\ StartDiscussionPhase(t)
                => /\ games'[t.g].status = "discussion"
                   /\ t.g \in DOMAIN timers'
                   /\ timers'[t.g].armed /\ timers'[t.g].kind = "discussion"
      ]_vars

\* one of the three role DMs was delivered, two failed, and the roles are
\* being announced
C24_Witness ==
    \E u \in BagToSet(tasks) :
        /\ u.pc = "ar_send_assigned" /\ u.dm = 1
        /\ Len(games[u.g].players) = 3
        /\ games[u.g].status = "assigning_roles"

\* C25: the step that enters discussion arms the deadline for exactly the
\* session's selectedDuration, in minutes, which is set (no default stands
\* in for it), and records that as the discussion end time; a session
\* leaves discussion for voting only in the callback of that deadline.
C25_DiscussionLastsTheSelectedDuration ==
    [][/\ \A t \in BagToSet(tasks) :
             StartDiscussionPhase(t)
                 => /\ games'[t.g].selectedDuration \in GameDurations
                    /\ timers'[t.g].kind = "discussion"
                    /\ timers'[t.g].delay = games'[t.g].selectedDuration * 60
                    /\ games'[t.g].discussionEndTime
                         = games'[t.g].selectedDuration * 60
       /\ \A g \in DOMAIN games :
             (games[g].status = "discussion" /\ games'[g].status = "voting")
                 => \E t \in BagToSet(tasks) :
                       /\ t.g = g /\ t.pc = "edp_send"
                       /\ StartVotingPhase(t)
      ]_vars

\* the inboxIds of the session's players, in the order of the Map
PlayerIds(state) == [i \in 1..Len(state.players) |-> state.players[i].inboxId]

\* C26: the callback of a discussion deadline that fired in discussion puts
\* the session in voting with no votes recorded, and when it completes the
\* session is in voting, the accusation poll it sent lists exactly the
\* session's players, and the stored timeout is the armed 60-second voting
\* deadline.
C26_DiscussionDeadlineOpensVoting ==
    [][\A t \in BagToSet(tasks) :
          /\ StartVotingPhase(t)
                => /\ games'[t.g].status = "voting"
                   /\ games'[t.g].votes = << >>
          /\ StartVotingArm(t)
                => /\ games'[t.g].status = "voting"
                   /\ t.members = PlayerIds(games'[t.g])
                   /\ t.g \in DOMAIN timers'
                   /\ timers'[t.g].armed
                   /\ timers'[t.g].kind = "voting"
                   /\ timers'[t.g].delay = 60
      ]_vars

\* the positions in votes of voter v's entries
VotesOf(state, v) == {i \in 1..Len(state.votes) : state.votes[i].voter = v}

\* C27: handlePlayerVote on a session whose phase is not voting changes
\* nothing; in voting it leaves exactly one entry for the voter in votes,
\* naming the votee just submitted, whether or not the votee is a player,
\* and leaves the other voters' entries as they were.
C27_PlayerVoteOnlyInVotingLastWriteWins ==
    [][\A g \in Groups, v \in Voters, w \in Votees \cup Participants :
          HandlePlayerVote(g, v, w)
              => IF getGameState(games, g)[g].status # "voting"
                 THEN /\ games' = getGameState(games, g)
                      /\ inbound'.pc = "pv_ignored"
                      /\ UNCHANGED <<timers, timeouts, tasks>>
                 ELSE /\ inbound'.pc = "pv_recorded"
                      /\ Cardinality(VotesOf(games'[g], v)) = 1
                      /\ \A i \in VotesOf(games'[g], v) :
                            games'[g].votes[i].votee = w
                      /\ \A u \in Voters \ {v} :
                            /\ VotesOf(games'[g], u) = VotesOf(games[g], u)
                            /\ \A i \in VotesOf(games[g], u) :
                                  games'[g].votes[i] = games[g].votes[i]
                      /\ games'[g].status = "voting"
                      /\ UNCHANGED <<timers, timeouts, tasks>>
      ]_vars

\* a vote for "zz", who is not a player, was just recorded as the only
\* entry of a voter who is one
C27_Witness ==
    \E g \in DOMAIN games :
        /\ inbound.g = g /\ inbound.pc = "pv_recorded"
        /\ games[g].status = "voting"
        /\ ~hasPlayer(games[g], "zz")
        /\ \E i \in 1..Len(games[g].votes) :
              /\ games[g].votes[i].votee = "zz"
              /\ hasPlayer(games[g], games[g].votes[i].voter)

\* C28: when the voting deadline fires in voting with no vote recorded, the
\* callback sets neither votedOutInboxId nor winner, leaves the session as
\* it is and waits for its "No votes received" notice; its only continuation
\* resets the session to idle with every field unset, schedules nothing and
\* ends the callback, so status ended is never entered.
C28_NoVotesEndsInADraw ==
    [][ /\ \A g \in Groups :
             (FinalizeVoting(g) /\ g \in DOMAIN games
                /\ games[g].status = "voting"
                /\ games[g].votes = << >>)
               => /\ games' = games
                  /\ games'[g].votedOutInboxId = Undefined
                  /\ games'[g].winner = Undefined
                  /\ tasks' = tasks (+)
                        One(Task(g, "fv_send_draw", timers[g].game))
                  /\ ~timers'[g].armed
                  /\ timeouts' = timeouts
        /\ \A t \in BagToSet(tasks) :
             (t.pc = "fv_send_draw" /\ CallbackStep(t))
               => \/ CallbackRejects(t)
                  \/ /\ games'[t.g].status = "idle"
                     /\ AllUnset(games'[t.g])
                     /\ BagCardinality(tasks') = BagCardinality(tasks) - 1
                     /\ UNCHANGED <<timers, timeouts>> ]_vars

\* the start and one duration vote were the only commands: the accusation
\* poll ran out without a vote and the session is idle again, its expired
\* voting deadline still in the timers table
C28_Witness ==
    /\ budget["g1"] = MaxCommands - 2
    /\ gameNo["g1"] = 1
    /\ "g1" \in DOMAIN timers
    /\ timers["g1"].kind = "voting" /\ ~timers["g1"].armed
    /\ tasks = EmptyBag /\ timeouts = EmptyBag /\ unhandled = {}
    /\ games["g1"].status = "idle"
    /\ AllUnset(games["g1"])

\* how many entries of votes accuse id
Accusations(state, id) ==
    Cardinality({i \in 1..Len(state.votes) : state.votes[i].votee = id})

\* id is accused at least as often as anyone
MostAccused(state, id) ==
    /\ Accusations(state, id) >= 1
    /\ \A i \in 1..Len(state.votes) :
          Accusations(state, state.votes[i].votee) <= Accusations(state, id)

\* C29: when the voting deadline fires in voting with at least one vote
\* recorded, votedOutInboxId becomes an identity accused at least as often
\* as any other, winner is set and the results go out with that identity's
\* count; when the callback completes the session is in status ended with
\* votedOutInboxId and winner set.
C29_VotesEndTheGameWithTheMostAccusedOut ==
    [][ /\ \A g \in Groups :
             (FinalizeVoting(g) /\ g \in DOMAIN games
                /\ games[g].status = "voting"
                /\ games[g].votes # << >>)
               => /\ MostAccused(games[g], games'[g].votedOutInboxId)
                  /\ games'[g].winner \in {"group", "imposter"}
                  /\ \E t \in BagToSet(tasks') :
                        t.g = g /\ t.pc = "fv_send_results"
        /\ \A t \in BagToSet(tasks) :
             FinalizeVotingEnd(t)
               => /\ games'[t.g].status = "ended"
                  /\ games'[t.g].votedOutInboxId # Undefined
                  /\ games'[t.g].winner \in {"group", "imposter"} ]_vars

\* C30: determineWinner answers "group" exactly when the identity it is
\* given is the session's imposterInboxId, and "imposter" otherwise; and in
\* every reachable state with status ended, winner is "group" exactly when
\* votedOutInboxId equals imposterInboxId.
C30_GroupWinsIffTheImposterIsVotedOut ==
    \A g \in DOMAIN games :
        /\ \A id \in Participants \cup Votees \cup {Undefined} :
              /\ determineWinner(games[g], id) \in {"group", "imposter"}
              /\ determineWinner(games[g], id) = "group"
                    <=> id = games[g].imposterInboxId
        /\ games[g].status = "ended"
              => (games[g].winner = "group"
                    <=> games[g].votedOutInboxId = games[g].imposterInboxId)

\* the unstored cleanup timeouts pending for group g
PendingCleanups(g) == {to \in Unstored(g) : to.kind = "cleanup"}

\* C31: the step that sets status ended schedules the 5-second cleanup; as
\* long as the session is ended a cleanup is pending and the session, its
\* winner and votedOutInboxId included, is left as it is by every step
\* except that cleanup and the start of a new game; the cleanup leaves the
\* session idle with every field unset and every collection empty.
C31_EndedLastsUntilTheCleanup ==
    [][ /\ \A t \in BagToSet(tasks) :
             FinalizeVotingEnd(t)
               => /\ games'[t.g].status = "ended"
                  /\ \E to \in BagToSet(timeouts') :
                        /\ to.g = t.g /\ to.kind = "cleanup" /\ to.delay = 5
                        /\ CopiesIn(to, timeouts') = CopiesIn(to, timeouts) + 1
        /\ \A g \in DOMAIN games :
             games[g].status = "ended"
               => /\ PendingCleanups(g) # {}
                  /\ games'[g] # games[g]
                       => \/ \E to \in PendingCleanups(g) : Cleanup(to)
                          \/ \E m \in MemberSnapshots : StartGameMembers(g, m)
        /\ \A to \in BagToSet(timeouts) :
             Cleanup(to)
               => /\ games'[to.g].status = "idle"
                  /\ AllUnset(games'[to.g]) ]_vars

\* C32: resetGameState applied to the session of any reachable state gives
\* status idle, every optional field unset and players, votes and
\* durationVotes empty, with groupId as it was: the state createGameState
\* builds for that group; applying it again changes nothing.
C32_ResetClearsEverythingButTheGroup ==
    \A g \in DOMAIN games :
        LET once == resetGameState(games[g])
        IN  /\ once.status = "idle"
            /\ AllUnset(once)
            /\ once.groupId = games[g].groupId
            /\ once = createGameState(games[g].groupId)
            /\ resetGameState(once) = once

\* a session with every field set and every collection filled
C32_Witness ==
    \E g \in DOMAIN games :
        /\ games[g].status = "ended"
        /\ games[g].durationVotes # << >> /\ games[g].votes # << >>
        /\ games[g].players # << >>
        /\ games[g].selectedDuration # NoDuration
        /\ games[g].imposterInboxId # Undefined
        /\ games[g].secretWord # Undefined
        /\ games[g].startedAt # Undefined
        /\ games[g].discussionEndTime # NoTime
        /\ games[g].currentSpeakerInboxId # Undefined
        /\ games[g].votingStartedAt # Undefined
        /\ games[g].votedOutInboxId # Undefined
        /\ games[g].winner # Undefined

\* C33: a /status command, for any group and in any phase, leaves every
\* session as it is, creates no session for a group that has none, and
\* leaves the stored timers, the unstored timeouts and the suspended
\* callbacks untouched, when it is handled and when its reply has been sent.
C33_StatusNeverMutates ==
    [][\A g \in Groups :
          (HandleStatusCommand(g) \/ (inbound.op = "status" /\ InboundEnds))
              => /\ games' = games
                 /\ DOMAIN games' = DOMAIN games
                 /\ UNCHANGED <<timers, timeouts, tasks>>
      ]_vars

\* /status is being answered for a group that has no session
C33_Witness ==
    /\ inbound.op = "status"
    /\ inbound.g \notin DOMAIN games

\* C34: shutdown leaves no stored timer, and once it has returned no
\* timeout callback starts for any group, whether a stored phase deadline,
\* the speaker delay or the post-game cleanup, and no step changes a
\* session.
C34_NothingFiresAfterShutdown ==
    [][ /\ Shutdown => \A g \in Groups : g \notin DOMAIN timers'
        /\ stopped
             => /\ \A g \in Groups : ~TimerStep(g)
                /\ \A to \in BagToSet(timeouts) : ~TimeoutStep(to)
                /\ games' = games ]_vars

\* the changes of status the game flow allows
PhaseEdges ==
    { <<"idle", "voting_duration">>, <<"ended", "voting_duration">>,
      <<"voting_duration", "assigning_roles">>,
      <<"assigning_roles", "discussion">>, <<"discussion", "voting">>,
      <<"voting", "ended">>, <<"ended", "idle">> }
      \cup {<<active, "idle">> : active \in ActivePhases}

\* C35: whenever a step changes the status of a group's session, the old
\* and the new status form one of the allowed edges; a group without a
\* session counts as idle.
C35_PhaseChangesFollowTheGameFlow ==
    [][\A g \in DOMAIN games' :
          LET old == IF g \in DOMAIN games THEN games[g].status ELSE "idle"
              new == games'[g].status
          IN  old # new => <<old, new>> \in PhaseEdges ]_vars

(* ------------------- games left alone: termination -------------------- *)

\* The handler's last await settles and the message loop moves on.  In
\* startGame, conversation.members() and the two sends are followed by more
\* code (StartGameMembers, StartGameArm), so there only a rejection ends the
\* handler: that end is left out here.
InboundReturns ==
    /\ inbound.pc \notin {"sg_members", "sg_send_poll"}
    /\ InboundEnds

\* Everything the event loop does on its own: a continuation of the inbound
\* handler, an expired deadline, an expired timeout, a continuation of a
\* callback whose awaited call returned.
Progress ==
    \/ \E g \in Groups, m \in MemberSnapshots : StartGameMembers(g, m)
    \/ \E g \in Groups : StartGameArm(g)
    \/ InboundReturns
    \/ \E g \in Groups : FinalizeDurationVote(g)
    \/ \E t \in BagToSet(tasks) : FinalizeDurationVoteAbort(t)
    \/ \E t \in BagToSet(tasks) : AssignRoles(t)
    \/ \E t \in BagToSet(tasks), m \in MemberSnapshots : AssignRolesMembers(t, m)
    \/ \E t \in BagToSet(tasks) : AssignRolesAbort(t)
    \/ \E t \in BagToSet(tasks), p \in Participants, w \in SeqToSet(WORD_LIST) :
           AssignRolesAdd(t, p, w)
    \/ \E t \in BagToSet(tasks), ok \in BOOLEAN : AssignRolesDm(t, ok)
    \/ \E t \in BagToSet(tasks) : AssignRolesDmAbort(t)
    \/ \E t \in BagToSet(tasks) : AssignRolesDone(t)
    \/ \E to \in BagToSet(timeouts), p \in Participants \cup {Undefined} :
           SelectRandomSpeaker(to, p)
    \/ \E t \in BagToSet(tasks) : StartDiscussionPhase(t)
    \/ \E g \in Groups : EndDiscussionPhase(g)
    \/ \E t \in BagToSet(tasks) : StartVotingPhase(t)
    \/ \E t \in BagToSet(tasks) : StartVotingArm(t)
    \/ \E g \in Groups : FinalizeVoting(g)
    \/ \E t \in BagToSet(tasks) : FinalizeVotingAbort(t)
    \/ \E t \in BagToSet(tasks) : FinalizeVotingEnd(t)
    \/ \E to \in BagToSet(timeouts) : Cleanup(to)

\* The commands of the chat: they may arrive or not.
Commands ==
    \/ \E g \in Groups : StartGame(g)
    \/ \E g \in Groups : CancelGame(g)
    \/ \E g \in Groups, v \in Voters, a \in DurationActionIds :
           HandleIntentMessage(g, v, "duration-1", a)
    \/ \E g \in Groups, v \in Voters, w \in Votees :
           HandleIntentMessage(g, v, "voting-1", w)
    \/ \E g \in Groups, v \in Voters, n \in Numbers :
           HandleNumberResponse(g, v, n)

\* No collaborator call rejects (CallbackRejects and the rejections of
\* startGame's awaits are left out), and the event loop keeps running: an
\* armed timer fires and a pending call returns.
NextLive ==
    \/ Commands
    \/ Progress

SpecLive == Init /\ [][NextLive]_vars /\ WF_vars(Progress)

\* C36: a session in an active phase or ended is eventually idle, whether
\* or not any more command arrives, provided timers fire and collaborator
\* calls return.
C36_EveryGameEventuallyReturnsToIdle ==
    \A g \in Groups :
        (g \in DOMAIN games /\ games[g].status \in ActivePhases \cup {"ended"})
            ~> (g \in DOMAIN games /\ games[g].status = "idle")

\* the roles are assigned: at least MinPlayers players, none of them the
\* bot, the imposter set and one of them, the secret word set
RolesAssigned(state) ==
    /\ Len(state.players) >= MinPlayers
    /\ ~hasPlayer(state, Bot)
    /\ state.imposterInboxId # Undefined
    /\ hasPlayer(state, state.imposterInboxId)
    /\ state.secretWord # Undefined

\* C37: a session in discussion or voting has at least three players, none
\* of them the bot, an imposter who is one of the players, and a secret
\* word.
C37_DiscussionAndVotingHaveRolesAssigned ==
    \A g \in DOMAIN games :
        games[g].status \in {"discussion", "voting"} => RolesAssigned(games[g])

\* C37 for a game that was never cancelled and is the group's first
C37_FirstGameNeverCancelled ==
    \A g \in DOMAIN games :
        (games[g].status \in {"discussion", "voting"}
            /\ gameNo[g] <= 1 /\ ~cancelled[g]) => RolesAssigned(games[g])

\* C38: an ended session has a winner and a voted-out id, the voted-out id
\* is one of its players, and at least one vote is recorded.
C38_EndedHasAResult ==
    \A g \in DOMAIN games :
        games[g].status = "ended"
            => /\ games[g].winner # Undefined
               /\ games[g].votedOutInboxId # Undefined
               /\ hasPlayer(games[g], games[g].votedOutInboxId)
               /\ games[g].votes # << >>

\* C38 for a game that was never cancelled and is the group's first
C38_FirstGameNeverCancelled ==
    \A g \in DOMAIN games :
        (games[g].status = "ended" /\ gameNo[g] <= 1 /\ ~cancelled[g])
            => /\ games[g].winner # Undefined
               /\ games[g].votedOutInboxId # Undefined
               /\ hasPlayer(games[g], games[g].votedOutInboxId)
               /\ games[g].votes # << >>

(* ------------------ groups whose membership is fixed ------------------ *)

\* What conversation.members() returns for each group, at every call: the
\* bot and three people in g1, the bot and two people in g2.
Membership ==
    [g \in Groups |-> IF g = "g1" THEN <<Bot, "p1", "p2", "p3">>
                      ELSE <<Bot, "p1", "p2">>]

\* enough commands for a whole game in g1 and for /start and a duration
\* vote in g2
InitSame ==
    /\ games = << >>
    /\ timers = << >>
    /\ timeouts = EmptyBag
    /\ tasks = EmptyBag
    /\ inbound = NoInbound
    /\ budget = [g \in Groups |-> IF g = "g1" THEN MaxCommands - 1
                                   ELSE MaxCommandsOther + 1]
    /\ unhandled = {}
    /\ gameNo = [g \in Groups |-> 0]
    /\ cancelled = [g \in Groups |-> FALSE]
    /\ ballots = << >>
    /\ stopped = FALSE

\* The groups send /start and tap poll buttons; nobody cancels or answers
\* with a number.
NextSame ==
    \/ \E g \in Groups : StartGame(g)
    \/ \E g \in Groups, v \in Voters, a \in DurationActionIds :
           HandleIntentMessage(g, v, "duration-1", a)
    \/ \E g \in Groups, v \in Voters, w \in Votees :
           HandleIntentMessage(g, v, "voting-1", w)
    \/ \E g \in Groups : StartGameMembers(g, Membership[g])
    \/ \E g \in Groups : StartGameArm(g)
    \/ InboundEnds
    \/ \E g \in Groups : FinalizeDurationVote(g)
    \/ \E t \in BagToSet(tasks) : FinalizeDurationVoteAbort(t)
    \/ \E t \in BagToSet(tasks) : AssignRoles(t)
    \/ \E t \in BagToSet(tasks) : AssignRolesMembers(t, Membership[t.g])
    \/ \E t \in BagToSet(tasks) : AssignRolesAbort(t)
    \/ \E t \in BagToSet(tasks), p \in Participants, w \in SeqToSet(WORD_LIST) :
           AssignRolesAdd(t, p, w)
    \/ \E t \in BagToSet(tasks), ok \in BOOLEAN : AssignRolesDm(t, ok)
    \/ \E t \in BagToSet(tasks) : AssignRolesDmAbort(t)
    \/ \E t \in BagToSet(tasks) : AssignRolesDone(t)
    \/ \E to \in BagToSet(timeouts), p \in Participants \cup {Undefined} :
           SelectRandomSpeaker(to, p)
    \/ \E t \in BagToSet(tasks) : StartDiscussionPhase(t)
    \/ \E g \in Groups : EndDiscussionPhase(g)
    \/ \E t \in BagToSet(tasks) : StartVotingPhase(t)
    \/ \E t \in BagToSet(tasks) : StartVotingArm(t)
    \/ \E g \in Groups : FinalizeVoting(g)
    \/ \E t \in BagToSet(tasks) : FinalizeVotingAbort(t)
    \/ \E t \in BagToSet(tasks) : FinalizeVotingEnd(t)
    \/ \E to \in BagToSet(timeouts) : Cleanup(to)
    \/ \E t \in BagToSet(tasks) : CallbackRejects(t)

SpecSame == InitSame /\ [][NextSame]_vars

\* C39: in a group whose membership stays the same, role assignment of a
\* game that startGame accepted never finds fewer than three players: it
\* does not go to "Not enough players".
C39_StartAndRoleAssignmentAgreeOnPlayers ==
    [][\A t \in BagToSet(tasks) :
          (AssignRolesMembers(t, Membership[t.g]) /\ t.game = gameNo[t.g])
              => /\ Len(NonBot(Membership[t.g])) >= MinPlayers
                 /\ [t EXCEPT !.pc = "ar_send_few"] \notin BagToSet(tasks')
      ]_vars

====
